---- MODULE Spec2Model ----
(***************************************************************************)
(* A model of parse_hh.py: the collection loop of fetch_vacancies with its *)
(* retry loop, the per-item extraction, format_salary, save_to_excel with  *)
(* wait_for_file, and main.                                                *)
(*                                                                         *)
(* Python values are tagged records, so that None, a missing key, a        *)
(* number, a string and a dict stay distinct.  The Cyrillic literals of    *)
(* the source are written in Latin transliteration (the keyword            *)
(* "syktyvkar", "ne ukazana", "Ne ukazan", "Net ssylki", "Net nazvaniya",  *)
(* "ot ", "do ").  A text that the code lowercases or searches is a tuple  *)
(* of one-character strings; a text that is only copied or concatenated is *)
(* a string.                                                               *)
(***************************************************************************)
EXTENDS Integers, Sequences, FiniteSets, TLC

\* ------------------------------------------------------------- bounds
\* largest `pages` value a response body reports
MaxPages == 2
\* longest `items` list of a response body
MaxItems == 2

\* ------------------------------------------------- program constants
MAX_RETRIES == 3
REQUEST_DELAY == 2
MAX_WAIT_TIME == 30
\* the default of wait_for_file's wait_time parameter
WAIT_TIME == 2

\* ------------------------------------------------------ Python values
\* a key that a dict does not hold
Absent == [tag |-> "absent"]
\* Python's None (JSON null)
None == [tag |-> "none"]
Num(n) == [tag |-> "int", v |-> n]
Str(s) == [tag |-> "str", v |-> s]
Dict(d) == [tag |-> "dict", v |-> d]

IsDict(x) == x.tag = "dict"
IsStr(x) == x.tag = "str"

\* d.get(key, default) on a dict modelled as a record of its known keys
DictGet(d, key, default) == IF d.v[key] = Absent THEN default ELSE d.v[key]

\* a dict is empty when it holds none of its keys
EmptyDict(x) == \A k \in DOMAIN x.v : x.v[k] = Absent

\* Python truthiness: None, 0, "" and {} are false
Truthy(x) ==
    CASE x.tag = "none" -> FALSE
      [] x.tag = "int" -> x.v # 0
      [] x.tag = "str" -> x.v # ""
      [] x.tag = "dict" -> ~EmptyDict(x)
      [] OTHER -> FALSE

\* what an f-string renders for a value: str(x)
FStr(x) ==
    CASE x.tag = "int" -> ToString(x.v)
      [] x.tag = "str" -> x.v
      [] OTHER -> "None"

\* ------------------------------------------------------ format_salary
NOT_SPECIFIED == "ne ukazana"

SalaryDict(f, t, c) == Dict([from |-> f, to |-> t, currency |-> c])

format_salary(salary) ==
    IF ~Truthy(salary) THEN NOT_SPECIFIED
    ELSE LET salary_from == DictGet(salary, "from", None)
             salary_to == DictGet(salary, "to", None)
             currency == DictGet(salary, "currency", Str(""))
         IN  IF Truthy(salary_from) /\ Truthy(salary_to)
               THEN FStr(salary_from) \o " - " \o FStr(salary_to) \o " " \o FStr(currency)
             ELSE IF Truthy(salary_from)
               THEN "ot " \o FStr(salary_from) \o " " \o FStr(currency)
             ELSE IF Truthy(salary_to)
               THEN "do " \o FStr(salary_to) \o " " \o FStr(currency)
             ELSE NOT_SPECIFIED

\* ------------------------------------------------------------- texts
UpperCase == <<"A","B","C","D","E","F","G","H","I","J","K","L","M",
               "N","O","P","Q","R","S","T","U","V","W","X","Y","Z">>
LowerCase == <<"a","b","c","d","e","f","g","h","i","j","k","l","m",
               "n","o","p","q","r","s","t","u","v","w","x","y","z">>

LowerChar(c) ==
    IF \E i \in DOMAIN UpperCase : UpperCase[i] = c
      THEN LowerCase[CHOOSE i \in DOMAIN UpperCase : UpperCase[i] = c]
      ELSE c

\* str.lower()
Lower(s) == [i \in DOMAIN s |-> LowerChar(s[i])]

\* the `in` operator on strings: sub occurs in s
Contains(s, sub) ==
    \E i \in 0..(Len(s) - Len(sub)) : SubSeq(s, i + 1, i + Len(sub)) = sub

\* the text filter of the request and of the city check
KEYWORD == <<"s","y","k","t","y","v","k","a","r">>

\* ------------------------------------------------- record extraction
NO_TITLE == Str("Net nazvaniya")
NO_EMPLOYER == Str("Ne ukazan")
NO_LINK == Str("Net ssylki")

\* an API item: a dict with the keys the code reads
Item(area, name, employer, salary, url) ==
    Dict([area |-> area, name |-> name, employer |-> employer,
          salary |-> salary, alternate_url |-> url])

Area(name) == Dict([name |-> name])
Employer(name) == Dict([name |-> name])

\* mutant: the city check is left out
ExtractNoCityCheck(item) ==
    LET area_info == DictGet(item, "area", Area(Absent))
    IN  IF ~IsDict(area_info) THEN [kind |-> "raise"]
        ELSE LET area_name == DictGet(area_info, "name", Str(<<>>))
             IN  IF ~IsStr(area_name) THEN [kind |-> "raise"]
                 ELSE LET city == Lower(area_name.v)
                          employer == DictGet(item, "employer", Employer(Absent))
                      IN  IF ~IsDict(employer) THEN [kind |-> "raise"]
                          ELSE [kind |-> "record",
                                rec |-> [title |-> DictGet(item, "name", NO_TITLE),
                                         employer |-> DictGet(employer, "name", NO_EMPLOYER),
                                         salary |-> format_salary(DictGet(item, "salary", None)),
                                         city |-> city,
                                         url |-> DictGet(item, "alternate_url", NO_LINK)]]

\* The body of the per-item try block.  The result is "raise" when an
\* attribute access fails (x.get on a value that is no dict, x.lower on a
\* value that is no str), "skip" when the city check rejects the item, and
\* "record" with the dict that is appended.
Extract(item) ==
    LET area_info == DictGet(item, "area", Area(Absent))
    IN  IF ~IsDict(area_info) THEN [kind |-> "raise"]
        ELSE LET area_name == DictGet(area_info, "name", Str(<<>>))
             IN  IF ~IsStr(area_name) THEN [kind |-> "raise"]
                 ELSE LET city == Lower(area_name.v)
                          employer == DictGet(item, "employer", Employer(Absent))
                      IN  IF ~Contains(city, KEYWORD) THEN [kind |-> "skip"]
                          ELSE IF ~IsDict(employer) THEN [kind |-> "raise"]
                          ELSE [kind |-> "record",
                                rec |-> [title |-> DictGet(item, "name", NO_TITLE),
                                         employer |-> DictGet(employer, "name", NO_EMPLOYER),
                                         salary |-> format_salary(DictGet(item, "salary", None)),
                                         city |-> city,
                                         url |-> DictGet(item, "alternate_url", NO_LINK)]]

\* --------------------------------------------------- API responses
List(seq) == [tag |-> "list", v |-> seq]
IsList(x) == x.tag = "list"

\* the JSON body of a successful response
Body(item_list, pages) == Dict([items |-> item_list, pages |-> pages])

\* status 0 stands for requests.get raising (connection error, timeout)
Response(status, retry_after, body) ==
    [status |-> status, retry_after |-> retry_after, body |-> body]

\* a well-formed vacancy of the target city
ItemFull ==
    Item(Area(Str(<<"S","y","k","t","y","v","k","a","r">>)), Str("dev"),
         Employer(Str("ACME")),
         SalaryDict(Num(100), Num(200), Str("RUR")), Str("u1"))
\* a vacancy of another city
ItemOther ==
    Item(Area(Str(<<"M","o","s","k","v","a">>)), Str("qa"),
         Employer(Str("ACME")), SalaryDict(Num(100), Absent, Str("RUR")), Str("u2"))
\* a vacancy of the target city with every optional key missing
ItemBare ==
    Item(Area(Str(<<"g","."," ","S","Y","K","T","Y","V","K","A","R">>)),
         Absent, Absent, Absent, Absent)
\* a vacancy of the target city whose employer is null
ItemNullEmployer ==
    Item(Area(Str(<<"s","y","k","t","y","v","k","a","r">>)), Str("ops"),
         None, None, Str("u4"))
\* a vacancy without an area
ItemNoArea ==
    Item(Absent, Str("pm"), Employer(Absent), None, None)

Items == {ItemFull, ItemOther, ItemBare, ItemNullEmployer, ItemNoArea}

RECURSIVE SeqsUpTo(_, _)
SeqsUpTo(S, n) ==
    IF n = 0 THEN {<<>>}
    ELSE LET shorter == SeqsUpTo(S, n - 1)
         IN  shorter \cup {Append(q, x) : q \in shorter, x \in S}

ItemLists == {Absent, None} \cup {List(q) : q \in SeqsUpTo(Items, MaxItems)}
PagesValues == {Absent, None} \cup {Num(n) : n \in 0..MaxPages}
Bodies == {Body(l, n) : l \in ItemLists, n \in PagesValues}

\* Retry-After header values: missing, "5", "abc", "-1"
RetryAfterValues == {Absent, Str(<<"5">>), Str(<<"a","b","c">>), Str(<<"-","1">>)}

NetworkErrors == {Response(0, Absent, None)}
HttpErrors == {Response(500, Absent, None)}
RateLimits == {Response(429, h, None) : h \in RetryAfterValues}
Successes == {Response(200, Absent, b) : b \in Bodies}

\* ------------------------------------------------------------- int()
Digits == <<"0","1","2","3","4","5","6","7","8","9">>
IsDigit(c) == \E i \in DOMAIN Digits : Digits[i] = c
DigitValue(c) == (CHOOSE i \in DOMAIN Digits : Digits[i] = c) - 1

RECURSIVE DecimalValue(_)
DecimalValue(s) ==
    IF s = <<>> THEN 0
    ELSE 10 * DecimalValue(SubSeq(s, 1, Len(s) - 1)) + DigitValue(s[Len(s)])

\* int(x) for an int or a text of an optional sign and decimal digits;
\* ok is FALSE where int() raises ValueError
ParseInt(x) ==
    IF x.tag = "int" THEN [ok |-> TRUE, v |-> x.v]
    ELSE LET s == x.v
             signed == s # <<>> /\ s[1] \in {"-", "+"}
             digits == IF signed THEN Tail(s) ELSE s
         IN  IF digits # <<>> /\ \A i \in DOMAIN digits : IsDigit(digits[i])
               THEN [ok |-> TRUE,
                     v |-> IF signed /\ s[1] = "-" THEN 0 - DecimalValue(digits)
                           ELSE DecimalValue(digits)]
               ELSE [ok |-> FALSE, v |-> 0]

\* =============================================================== state
VARIABLES
    pc,          \* the position of the run
    page,        \* fetch_vacancies: page index
    total_pages, \* fetch_vacancies: total-page bound, a Python value
    vacancies,   \* fetch_vacancies: the accumulated records
    attempt,     \* fetch_vacancies: the for loop's attempt number
    success,     \* fetch_vacancies: the retry loop's flag
    data,        \* fetch_vacancies: the decoded body of the last success
    items,       \* fetch_vacancies: the item list being iterated
    idx,         \* fetch_vacancies: position of the item loop in items
    exc,         \* the exception in flight, and the function it left
    critical,    \* main: the catch-all logged a critical error
    elapsed,     \* wait_for_file: time.time() - start_time
    saveCalls,   \* number of calls of save_to_excel
    handed,      \* the sequence passed to save_to_excel
    writes,      \* number of to_excel calls
    nreq,        \* history: GET requests issued for the current page
    n429,        \* history: 429 responses received for the current page
    slept,       \* history: the time.sleep argument of the last step
    resp,        \* history: the GET of the last step, and how it was answered
    skipped,     \* history: the pages skipped after failed attempts
    expected,    \* history: records of the items of the pages read so far
    sources,     \* history: the item each record of vacancies was made from
    fn_in,       \* the argument of a function applied on its own
    fn_out       \* its result

progVars == <<pc, page, total_pages, vacancies, attempt, success, data, items,
              idx, exc, critical, elapsed, saveCalls, handed, writes,
              nreq, n429, slept, resp, skipped, expected, sources>>
vars == <<pc, page, total_pages, vacancies, attempt, success, data, items,
          idx, exc, critical, elapsed, saveCalls, handed, writes,
          nreq, n429, slept, resp, skipped, expected, sources, fn_in, fn_out>>

NoExc == [type |-> "none", from |-> "none"]
NoSleep == 0 - 1
\* the last step issued no GET
NoResp == [status |-> 0 - 1]
\* a GET with params page p, answered by r
Answered(p, r) == [status |-> r.status, retry_after |-> r.retry_after, page |-> p]
NoData == Body(Absent, Absent)

\* positions inside fetch_vacancies
FetchPcs == {"while", "request", "after_for", "items"}

\* mutant: the bound starts at 2
ProgInitBoundTwo ==
    /\ pc = "main"
    /\ page = 0
    /\ total_pages = Num(2)
    /\ vacancies = <<>>
    /\ attempt = 0
    /\ success = FALSE
    /\ data = NoData
    /\ items = <<>>
    /\ idx = 0
    /\ exc = NoExc
    /\ critical = FALSE
    /\ elapsed = 0
    /\ saveCalls = 0
    /\ handed = <<>>
    /\ writes = 0
    /\ nreq = 0
    /\ n429 = 0
    /\ slept = NoSleep
    /\ resp = NoResp
    /\ skipped = {}
    /\ expected = <<>>
    /\ sources = <<>>

ProgInit ==
    /\ pc = "main"
    /\ page = 0
    /\ total_pages = Num(1)
    /\ vacancies = <<>>
    /\ attempt = 0
    /\ success = FALSE
    /\ data = NoData
    /\ items = <<>>
    /\ idx = 0
    /\ exc = NoExc
    /\ critical = FALSE
    /\ elapsed = 0
    /\ saveCalls = 0
    /\ handed = <<>>
    /\ writes = 0
    /\ nreq = 0
    /\ n429 = 0
    /\ slept = NoSleep
    /\ resp = NoResp
    /\ skipped = {}
    /\ expected = <<>>
    /\ sources = <<>>

Init == ProgInit /\ fn_in = None /\ fn_out = None

\* an exception leaves function f and reaches the try block of main
Raise(type, f) ==
    /\ pc' = "raised"
    /\ exc' = [type |-> type, from |-> f]

\* ------------------------------------------------------ fetch_vacancies
\* main calls fetch_vacancies, which sets its locals (lines 72-74)
MainStart ==
    /\ pc = "main"
    /\ pc' = "while"
    /\ slept' = NoSleep
    /\ resp' = NoResp
    /\ UNCHANGED <<page, total_pages, vacancies, attempt, success, data, items,
                   idx, exc, critical, elapsed, saveCalls, handed, writes,
                   nreq, n429, skipped, expected, sources, fn_in, fn_out>>

\* mutant: range(1, MAX_RETRIES)
AttemptsOffByOne == 1..(MAX_RETRIES - 1)

\* range(1, MAX_RETRIES + 1)
Attempts == 1..MAX_RETRIES

\* `while page < total_pages` holds: a new iteration starts
LoopEnter ==
    /\ pc = "while"
    /\ total_pages.tag = "int"
    /\ page < total_pages.v
    /\ success' = FALSE
    /\ attempt' = 1
    /\ pc' = IF 1 \in Attempts THEN "request" ELSE "after_for"
    /\ nreq' = 0
    /\ n429' = 0
    /\ slept' = NoSleep
    /\ resp' = NoResp
    /\ UNCHANGED <<page, total_pages, vacancies, data, items, idx, exc, critical,
                   elapsed, saveCalls, handed, writes, skipped, expected,
                   sources, fn_in, fn_out>>

\* `while page < total_pages` fails: fetch_vacancies returns vacancies
LoopExit ==
    /\ pc = "while"
    /\ total_pages.tag = "int"
    /\ ~(page < total_pages.v)
    /\ pc' = "returned"
    /\ slept' = NoSleep
    /\ resp' = NoResp
    /\ UNCHANGED <<page, total_pages, vacancies, attempt, success, data, items,
                   idx, exc, critical, elapsed, saveCalls, handed, writes,
                   nreq, n429, skipped, expected, sources, fn_in, fn_out>>

\* `page < total_pages` with total_pages None raises TypeError
LoopTypeError ==
    /\ pc = "while"
    /\ total_pages.tag # "int"
    /\ Raise("TypeError", "fetch_vacancies")
    /\ slept' = NoSleep
    /\ resp' = NoResp
    /\ UNCHANGED <<page, total_pages, vacancies, attempt, success, data, items,
                   idx, critical, elapsed, saveCalls, handed, writes,
                   nreq, n429, skipped, expected, sources, fn_in, fn_out>>

\* `continue` of the for loop: the next attempt, or the end of the loop
Continue ==
    IF attempt + 1 \in Attempts
      THEN attempt' = attempt + 1 /\ pc' = "request"
      ELSE attempt' = attempt /\ pc' = "after_for"

\* mutant: the backoff is the same after every failed attempt
GetErrorConstantDelay ==
    /\ pc = "request"
    /\ \E r \in NetworkErrors \cup HttpErrors : resp' = Answered(page, r)
    /\ nreq' = nreq + 1
    /\ slept' = IF attempt < MAX_RETRIES THEN REQUEST_DELAY ELSE NoSleep
    /\ Continue
    /\ UNCHANGED <<page, total_pages, vacancies, success, data, items, idx, exc,
                   critical, elapsed, saveCalls, handed, writes, n429, skipped,
                   expected, sources, fn_in, fn_out>>

\* the GET raises RequestException, or raise_for_status does: lines 101-105
GetError ==
    /\ pc = "request"
    /\ \E r \in NetworkErrors \cup HttpErrors : resp' = Answered(page, r)
    /\ nreq' = nreq + 1
    /\ slept' = IF attempt < MAX_RETRIES THEN REQUEST_DELAY * attempt ELSE NoSleep
    /\ Continue
    /\ UNCHANGED <<page, total_pages, vacancies, success, data, items, idx, exc,
                   critical, elapsed, saveCalls, handed, writes, n429, skipped,
                   expected, sources, fn_in, fn_out>>

\* the GET answers 429 and the wait is computed and slept: lines 90-94
GetRateLimited ==
    /\ pc = "request"
    /\ \E r \in RateLimits :
         LET retry_after == ParseInt(IF r.retry_after = Absent
                                       THEN Num(REQUEST_DELAY) ELSE r.retry_after)
         IN  /\ retry_after.ok
             /\ retry_after.v >= 0
             /\ slept' = retry_after.v
             /\ resp' = Answered(page, r)
    /\ nreq' = nreq + 1
    /\ n429' = n429 + 1
    /\ Continue
    /\ UNCHANGED <<page, total_pages, vacancies, success, data, items, idx, exc,
                   critical, elapsed, saveCalls, handed, writes, skipped,
                   expected, sources, fn_in, fn_out>>

\* the GET answers 429 and int() or time.sleep raises ValueError, which
\* `except requests.RequestException` does not catch: lines 91 and 93
GetRateLimitedValueError ==
    /\ pc = "request"
    /\ \E r \in RateLimits :
         LET retry_after == ParseInt(IF r.retry_after = Absent
                                       THEN Num(REQUEST_DELAY) ELSE r.retry_after)
         IN  /\ ~retry_after.ok \/ retry_after.v < 0
             /\ resp' = Answered(page, r)
    /\ nreq' = nreq + 1
    /\ n429' = n429 + 1
    /\ Raise("ValueError", "fetch_vacancies")
    /\ slept' = NoSleep
    /\ UNCHANGED <<page, total_pages, vacancies, attempt, success, data, items,
                   idx, critical, elapsed, saveCalls, handed, writes, skipped,
                   expected, sources, fn_in, fn_out>>

\* the GET answers 200, raise_for_status passes and the loop is left with
\* success set: lines 96-99.  The body that response.json() decodes is
\* drawn where it is first read, in ReadPage and ReadPageTypeError.
GetOk ==
    /\ pc = "request"
    /\ Successes # {}
    /\ resp' = Answered(page, Response(200, Absent, None))
    /\ nreq' = nreq + 1
    /\ success' = TRUE
    /\ pc' = "after_for"
    /\ slept' = NoSleep
    /\ UNCHANGED <<page, total_pages, vacancies, attempt, data, items, idx, exc,
                   critical, elapsed, saveCalls, handed, writes, n429, skipped,
                   expected, sources, fn_in, fn_out>>

\* Extract on the items a response can hold, evaluated once
ExtractOf == [it \in Items |-> Extract(it)]

\* the records the extractor yields for a list of items, in item order
RECURSIVE PageRecords(_)
PageRecords(item_seq) ==
    IF item_seq = <<>> THEN <<>>
    ELSE LET r == ExtractOf[Head(item_seq)]
         IN  (IF r.kind = "record" THEN <<r.rec>> ELSE <<>>)
               \o PageRecords(Tail(item_seq))

\* mutant: a skipped page resets the accumulated records
SkipPageDropsRecords ==
    /\ pc = "after_for"
    /\ ~success
    /\ page' = page + 1
    /\ pc' = "while"
    /\ skipped' = skipped \cup {page}
    /\ slept' = NoSleep
    /\ resp' = NoResp
    /\ attempt' = 0
    /\ nreq' = 0
    /\ n429' = 0
    /\ vacancies' = <<>>
    /\ sources' = <<>>
    /\ UNCHANGED <<total_pages, success, data, items, idx, exc, critical,
                   elapsed, saveCalls, handed, writes, expected, fn_in, fn_out>>

\* mutant: a skipped page is retried: page is not advanced
SkipPageKeepsPage ==
    /\ pc = "after_for"
    /\ ~success
    /\ page' = page
    /\ pc' = "while"
    /\ skipped' = skipped \cup {page}
    /\ slept' = NoSleep
    /\ resp' = NoResp
    /\ attempt' = 0
    /\ nreq' = 0
    /\ n429' = 0
    /\ UNCHANGED <<total_pages, vacancies, success, data, items, idx,
                   exc, critical, elapsed, saveCalls, handed, writes,
                   expected, sources, fn_in, fn_out>>

\* mutant: a skipped page also skips the page after it
SkipPageJumpsTwo ==
    /\ pc = "after_for"
    /\ ~success
    /\ page' = page + 2
    /\ pc' = "while"
    /\ skipped' = skipped \cup {page}
    /\ slept' = NoSleep
    /\ resp' = NoResp
    /\ attempt' = 0
    /\ nreq' = 0
    /\ n429' = 0
    /\ UNCHANGED <<total_pages, vacancies, success, data, items, idx,
                   exc, critical, elapsed, saveCalls, handed, writes,
                   expected, sources, fn_in, fn_out>>

\* mutant: a skipped page puts the bound back to its initial value
SkipPageResetsBound ==
    /\ pc = "after_for"
    /\ ~success
    /\ page' = page + 1
    /\ pc' = "while"
    /\ skipped' = skipped \cup {page}
    /\ slept' = NoSleep
    /\ resp' = NoResp
    /\ attempt' = 0
    /\ nreq' = 0
    /\ n429' = 0
    /\ total_pages' = Num(1)
    /\ UNCHANGED <<vacancies, success, data, items, idx,
                   exc, critical, elapsed, saveCalls, handed, writes,
                   expected, sources, fn_in, fn_out>>

\* `if not success`: the page is skipped, lines 107-110; attempt is not
\* read again before it is assigned, and the request counts are those of
\* the current page, so they are cleared when the page index advances
SkipPage ==
    /\ pc = "after_for"
    /\ ~success
    /\ page' = page + 1
    /\ pc' = "while"
    /\ skipped' = skipped \cup {page}
    /\ slept' = NoSleep
    /\ resp' = NoResp
    /\ attempt' = 0
    /\ nreq' = 0
    /\ n429' = 0
    /\ UNCHANGED <<total_pages, vacancies, success, data, items, idx,
                   exc, critical, elapsed, saveCalls, handed, writes,
                   expected, sources, fn_in, fn_out>>

\* mutant: the bound is read from the response of page 0 only
ReadPageBoundOfFirstPage ==
    /\ pc = "after_for"
    /\ success
    /\ \E r \in Successes :
         LET item_list == DictGet(r.body, "items", List(<<>>))
         IN  /\ IsList(item_list)
             /\ data' = r.body
             /\ total_pages' = IF page = 0
                                 THEN DictGet(r.body, "pages", Num(0))
                                 ELSE total_pages
             /\ items' = item_list.v
             /\ expected' = expected \o PageRecords(item_list.v)
    /\ idx' = 1
    /\ pc' = "items"
    /\ slept' = NoSleep
    /\ resp' = NoResp
    /\ attempt' = 0
    /\ nreq' = 0
    /\ n429' = 0
    /\ UNCHANGED <<page, vacancies, success, exc, critical, elapsed, saveCalls,
                   handed, writes, skipped, sources, fn_in, fn_out>>

\* lines 97 and 112-115: the decoded body, the bound and the items read
\* from it; the retry loop is over, so attempt and the request counts are
\* cleared
ReadPage ==
    /\ pc = "after_for"
    /\ success
    /\ \E r \in Successes :
         LET item_list == DictGet(r.body, "items", List(<<>>))
         IN  /\ IsList(item_list)
             /\ data' = r.body
             /\ total_pages' = DictGet(r.body, "pages", Num(0))
             /\ items' = item_list.v
             /\ expected' = expected \o PageRecords(item_list.v)
    /\ idx' = 1
    /\ pc' = "items"
    /\ slept' = NoSleep
    /\ resp' = NoResp
    /\ attempt' = 0
    /\ nreq' = 0
    /\ n429' = 0
    /\ UNCHANGED <<page, vacancies, success, exc, critical, elapsed, saveCalls,
                   handed, writes, skipped, sources, fn_in, fn_out>>

\* line 115 with `items` null: iterating None raises TypeError
ReadPageTypeError ==
    /\ pc = "after_for"
    /\ success
    /\ \E r \in Successes :
         /\ ~IsList(DictGet(r.body, "items", List(<<>>)))
         /\ data' = r.body
         /\ total_pages' = DictGet(r.body, "pages", Num(0))
    /\ Raise("TypeError", "fetch_vacancies")
    /\ slept' = NoSleep
    /\ resp' = NoResp
    /\ UNCHANGED <<page, vacancies, attempt, success, items, idx, critical,
                   elapsed, saveCalls, handed, writes, nreq, n429, skipped,
                   expected, sources, fn_in, fn_out>>

\* mutant: an item whose extraction raises ends the page
ProcessItemAbortsOnError ==
    /\ pc = "items"
    /\ idx <= Len(items)
    /\ LET r == ExtractOf[items[idx]]
       IN  /\ IF r.kind = "record"
                THEN /\ vacancies' = Append(vacancies, r.rec)
                     /\ sources' = Append(sources, items[idx])
                ELSE UNCHANGED <<vacancies, sources>>
           /\ idx' = IF r.kind = "raise" THEN Len(items) + 1 ELSE idx + 1
    /\ slept' = NoSleep
    /\ resp' = NoResp
    /\ UNCHANGED <<pc, page, total_pages, attempt, success, data, items, exc,
                   critical, elapsed, saveCalls, handed, writes, nreq, n429,
                   skipped, expected, fn_in, fn_out>>

\* one iteration of `for item in items`, lines 115-137: the record is
\* appended, or the item is skipped by the city check or by the except
ProcessItem ==
    /\ pc = "items"
    /\ idx <= Len(items)
    /\ LET r == ExtractOf[items[idx]]
       IN  IF r.kind = "record"
             THEN /\ vacancies' = Append(vacancies, r.rec)
                  /\ sources' = Append(sources, items[idx])
             ELSE UNCHANGED <<vacancies, sources>>
    /\ idx' = idx + 1
    /\ slept' = NoSleep
    /\ resp' = NoResp
    /\ UNCHANGED <<pc, page, total_pages, attempt, success, data, items, exc,
                   critical, elapsed, saveCalls, handed, writes, nreq, n429,
                   skipped, expected, fn_in, fn_out>>

\* lines 139-140 after the last item; data, success and the loop variables
\* are not read again before they are assigned, so they are cleared here
EndPage ==
    /\ pc = "items"
    /\ idx > Len(items)
    /\ page' = page + 1
    /\ slept' = REQUEST_DELAY
    /\ resp' = NoResp
    /\ pc' = "while"
    /\ data' = NoData
    /\ items' = <<>>
    /\ idx' = 0
    /\ success' = FALSE
    /\ UNCHANGED <<total_pages, vacancies, attempt, exc, critical, elapsed,
                   saveCalls, handed, writes, nreq, n429, skipped, expected,
                   sources, fn_in, fn_out>>

\* ------------------------------------------------------- main and sink
\* mutant: save_to_excel is called whatever was collected
ShouldSaveAlways(v) == TRUE

\* `if vacancies:` of main
ShouldSave(v) == v # <<>>

\* lines 165-167 after fetch_vacancies returned: save_to_excel is called
\* and ensure_folder_exists succeeds; the target file exists or not
SaveEnter ==
    /\ pc = "returned"
    /\ ShouldSave(vacancies)
    /\ saveCalls' = saveCalls + 1
    /\ handed' = vacancies
    /\ elapsed' = 0
    /\ \E exists \in BOOLEAN : pc' = IF exists THEN "wait" ELSE "write"
    /\ slept' = NoSleep
    /\ resp' = NoResp
    /\ UNCHANGED <<page, total_pages, vacancies, attempt, success, data, items,
                   idx, exc, critical, writes, nreq, n429, skipped, expected,
                   sources, fn_in, fn_out>>

\* save_to_excel is called and os.makedirs raises OSError, line 30
SaveEnterOSError ==
    /\ pc = "returned"
    /\ ShouldSave(vacancies)
    /\ saveCalls' = saveCalls + 1
    /\ handed' = vacancies
    /\ Raise("OSError", "save_to_excel")
    /\ slept' = NoSleep
    /\ resp' = NoResp
    /\ UNCHANGED <<page, total_pages, vacancies, attempt, success, data, items,
                   idx, critical, elapsed, writes, nreq, n429, skipped, expected,
                   sources, fn_in, fn_out>>

\* `if vacancies:` fails: nothing is saved
SaveSkip ==
    /\ pc = "returned"
    /\ ~ShouldSave(vacancies)
    /\ pc' = "finish"
    /\ slept' = NoSleep
    /\ resp' = NoResp
    /\ UNCHANGED <<page, total_pages, vacancies, attempt, success, data, items,
                   idx, exc, critical, elapsed, saveCalls, handed, writes, nreq,
                   n429, skipped, expected, sources, fn_in, fn_out>>

\* wait_for_file: a poll inside the bound finds the file writable; the
\* clock is local to wait_for_file and is cleared when it returns
WaitUnlocked ==
    /\ pc = "wait"
    /\ elapsed < MAX_WAIT_TIME
    /\ pc' = "write"
    /\ elapsed' = 0
    /\ slept' = NoSleep
    /\ resp' = NoResp
    /\ UNCHANGED <<page, total_pages, vacancies, attempt, success, data, items,
                   idx, exc, critical, saveCalls, handed, writes, nreq,
                   n429, skipped, expected, sources, fn_in, fn_out>>

\* wait_for_file: a poll inside the bound finds the file locked and sleeps
WaitLocked ==
    /\ pc = "wait"
    /\ elapsed < MAX_WAIT_TIME
    /\ elapsed' = elapsed + WAIT_TIME
    /\ slept' = WAIT_TIME
    /\ resp' = NoResp
    /\ UNCHANGED <<pc, page, total_pages, vacancies, attempt, success, data,
                   items, idx, exc, critical, saveCalls, handed, writes, nreq,
                   n429, skipped, expected, sources, fn_in, fn_out>>

\* mutant: the file is written although it stayed locked past the bound
WaitTimeoutWritesAnyway ==
    /\ pc = "wait"
    /\ ~(elapsed < MAX_WAIT_TIME)
    /\ pc' = "write"
    /\ elapsed' = 0
    /\ slept' = NoSleep
    /\ resp' = NoResp
    /\ UNCHANGED <<page, total_pages, vacancies, attempt, success, data, items,
                   idx, exc, critical, saveCalls, handed, writes, nreq,
                   n429, skipped, expected, sources, fn_in, fn_out>>

\* wait_for_file returns False: save_to_excel logs and returns, lines 149-151
WaitTimeout ==
    /\ pc = "wait"
    /\ ~(elapsed < MAX_WAIT_TIME)
    /\ pc' = "finish"
    /\ elapsed' = 0
    /\ slept' = NoSleep
    /\ resp' = NoResp
    /\ UNCHANGED <<page, total_pages, vacancies, attempt, success, data, items,
                   idx, exc, critical, saveCalls, handed, writes, nreq,
                   n429, skipped, expected, sources, fn_in, fn_out>>

\* lines 153-158: to_excel is called; an error of it is caught and logged
Write ==
    /\ pc = "write"
    /\ writes' = writes + 1
    /\ pc' = "finish"
    /\ slept' = NoSleep
    /\ resp' = NoResp
    /\ UNCHANGED <<page, total_pages, vacancies, attempt, success, data, items,
                   idx, exc, critical, elapsed, saveCalls, handed, nreq, n429,
                   skipped, expected, sources, fn_in, fn_out>>

\* lines 169-170: main logs the execution time and returns
Finish ==
    /\ pc = "finish"
    /\ pc' = "done"
    /\ slept' = NoSleep
    /\ resp' = NoResp
    /\ UNCHANGED <<page, total_pages, vacancies, attempt, success, data, items,
                   idx, exc, critical, elapsed, saveCalls, handed, writes, nreq,
                   n429, skipped, expected, sources, fn_in, fn_out>>

\* the classes `except Exception` catches, of those the code can raise
ExceptionClasses == {"ValueError", "TypeError", "OSError"}
\* mutant: `except requests.RequestException` in place of the catch-all
CatchesRequestErrorsOnly(type) == type \in {"RequestException"}

Catches(type) == type \in ExceptionClasses

\* lines 172-173: the catch-all of main logs the error and main returns;
\* an exception it does not catch leaves main
MainExcept ==
    /\ pc = "raised"
    /\ IF Catches(exc.type)
         THEN critical' = TRUE /\ pc' = "done"
         ELSE critical' = critical /\ pc' = "crashed"
    /\ slept' = NoSleep
    /\ resp' = NoResp
    /\ UNCHANGED <<page, total_pages, vacancies, attempt, success, data, items,
                   idx, exc, elapsed, saveCalls, handed, writes, nreq, n429,
                   skipped, expected, sources, fn_in, fn_out>>

Next ==
    \/ MainStart
    \/ LoopEnter
    \/ LoopExit
    \/ LoopTypeError
    \/ GetError
    \/ GetRateLimited
    \/ GetRateLimitedValueError
    \/ GetOk
    \/ SkipPage
    \/ ReadPage
    \/ ReadPageTypeError
    \/ ProcessItem
    \/ EndPage
    \/ SaveEnter
    \/ SaveEnterOSError
    \/ SaveSkip
    \/ WaitUnlocked
    \/ WaitLocked
    \/ WaitTimeout
    \/ Write
    \/ Finish
    \/ MainExcept

Spec == Init /\ [][Next]_vars

\* the run is sequential and every step of it is taken
FairSpec == Spec /\ WF_vars(Next)

\* ---------------------------------- the pure functions on their own
\* arguments of format_salary: None, and dicts whose bounds are missing,
\* null, 0 or another number and whose currency is missing or a string
SalaryInputs ==
    {None} \cup
    {SalaryDict(f, t, c) : f \in {Absent, None, Num(0), Num(100)},
                           t \in {Absent, None, Num(0), Num(200)},
                           c \in {Absent, Str("RUR"), Str("USD")}}

AreaInputs ==
    {Absent, None, Area(Absent), Area(None),
     Area(Str(<<>>)),
     Area(Str(<<"M","o","s","k","v","a">>)),
     Area(Str(<<"S","y","k","t","y","v","k","a","r">>)),
     Area(Str(<<"g","."," ","S","Y","K","T","Y","V","K","A","R">>))}

ItemInputs ==
    {Item(a, n, e, sal, u) :
        a \in AreaInputs,
        n \in {Absent, Str("dev")},
        e \in {Absent, None, Employer(Absent), Employer(Str("ACME"))},
        sal \in {Absent, None, SalaryDict(Num(100), Num(200), Str("RUR"))},
        u \in {Absent, None, Str("u1")}}

FnInputs ==
    {[fn |-> "format_salary", arg |-> x] : x \in SalaryInputs} \cup
    {[fn |-> "extract", arg |-> x] : x \in ItemInputs}

FnInit == ProgInit /\ fn_in \in FnInputs /\ fn_out = None

CallFormatSalary ==
    /\ fn_in.fn = "format_salary"
    /\ fn_out = None
    /\ fn_out' = Str(format_salary(fn_in.arg))
    /\ UNCHANGED <<progVars, fn_in>>

CallExtract ==
    /\ fn_in.fn = "extract"
    /\ fn_out = None
    /\ fn_out' = Extract(fn_in.arg)
    /\ UNCHANGED <<progVars, fn_in>>

FnNext ==
    \/ CallFormatSalary
    \/ CallExtract

FnSpec == FnInit /\ [][FnNext]_vars

\* =============================================================== claims
\* a key that is missing: absent from the dict, or null
Missing(x) == x = Absent \/ x = None

\* the item's area name, compared case-insensitively, contains the keyword
CityMatches(item) ==
    /\ IsDict(item.v.area)
    /\ IsStr(item.v.area.v.name)
    /\ Contains(Lower(item.v.area.v.name.v), KEYWORD)

\* the retry loop of the current page ended without a success
PageFailed == pc = "after_for" /\ ~success

IterationRank ==
    CASE pc = "while" -> MAX_RETRIES + MaxItems + 3
      [] pc = "request" -> (MAX_RETRIES - attempt) + MaxItems + 3
      [] pc = "after_for" -> MaxItems + 2
      [] pc = "items" -> MaxItems + 1 - idx
      [] OTHER -> 0

\* a variant of the collection loop: the pages that can still be visited
\* when no response reports more than MaxPages pages, then the steps left
\* in the current iteration; 0 outside the loop
LoopRank ==
    IF pc \in FetchPcs
      THEN (MaxPages + 1 - page) * (MAX_RETRIES + MaxItems + 4) + IterationRank
      ELSE 0

\* a step taken inside fetch_vacancies strictly decreases the variant and
\* leaves it non-negative
LoopStepDecreasesRank ==
    pc \in FetchPcs => (LoopRank' < LoopRank /\ LoopRank' >= 0)

\* C2: the collection loop terminates: every step taken inside
\* fetch_vacancies, whatever the request returned, strictly decreases a
\* variant that is never negative, so no run stays in the loop forever.
C2_LoopTerminates == [][LoopStepDecreasesRank]_vars

\* the same claim as a liveness property of FairSpec: the loop is
\* eventually left
C2_LoopEventuallyLeft == <>(pc \notin FetchPcs \cup {"main"})

\* C2 witness: the loop has ended after its only page failed every attempt.
C2_Witness ==
    /\ pc = "returned"
    /\ skipped = {0}
    /\ vacancies = <<>>

\* C3: when every request of a page ended in a network or HTTP error, the
\* retry loop ends after exactly MAX_RETRIES requests with success False, no
\* exception is in flight, and the retry loop raises only on a 429 response.
C3_ExactlyMaxRetriesOnErrors ==
    /\ (pc = "request" /\ n429 = 0) => (nreq < MAX_RETRIES /\ ~success)
    /\ (PageFailed /\ n429 = 0) => (nreq = MAX_RETRIES /\ exc = NoExc)
    /\ (pc = "raised" /\ exc.type = "ValueError") => n429 > 0

\* C3 witness: a page failed after MAX_RETRIES requests that all were errors.
C3_Witness == PageFailed /\ n429 = 0 /\ nreq = MAX_RETRIES

\* C4: a 429 response does not consume an attempt, so a page is given up
\* only after MAX_RETRIES requests that were not answered 429.
C4_RateLimitKeepsAttempts ==
    PageFailed => nreq - n429 = MAX_RETRIES

\* the items a response can hold whose city passes the check
MatchingItems == {it \in Items : CityMatches(it)}

\* their area names, as given and lowercased
CityNames ==
    {it.v.area.v.name.v : it \in MatchingItems}
      \cup {Lower(it.v.area.v.name.v) : it \in MatchingItems}

\* those of the names that are lowercased and contain the keyword
LowercasedKeywordCities ==
    {c \in CityNames : Lower(c) = c /\ Contains(c, KEYWORD)}

\* the lowercased area name of each matching item
LowercasedCityOf == [it \in MatchingItems |-> Lower(it.v.area.v.name.v)]

\* C5: every record of vacancies was made from an item whose area name
\* contains the keyword case-insensitively, and its city is that name
\* lowercased, which contains the keyword; so no item failing the check is
\* ever appended.
C5_OnlyMatchingCities ==
    /\ Len(sources) = Len(vacancies)
    /\ \A i \in DOMAIN vacancies :
         /\ sources[i] \in MatchingItems
         /\ vacancies[i].city = LowercasedCityOf[sources[i]]
         /\ vacancies[i].city \in LowercasedKeywordCities

\* C5 witness: items that fail the check were processed, a mixed-case
\* match was appended, and the loop has advanced.
C5_Witness ==
    /\ pc = "items"
    /\ idx > Len(items)
    /\ Len(items) = 2
    /\ ~CityMatches(items[1])
    /\ items[2] = ItemBare
    /\ Len(vacancies) = 1

\* C6: for an item of the target city with employer, salary or
\* alternate_url missing, the extractor yields a record holding the default
\* in each missing field.
C6_DefaultsForMissingFields ==
    (/\ fn_in.fn = "extract"
     /\ fn_out # None
     /\ CityMatches(fn_in.arg)
     /\ \/ Missing(fn_in.arg.v.employer)
        \/ Missing(fn_in.arg.v.salary)
        \/ Missing(fn_in.arg.v.alternate_url))
    => /\ fn_out.kind = "record"
       /\ Missing(fn_in.arg.v.employer) => fn_out.rec.employer = NO_EMPLOYER
       /\ Missing(fn_in.arg.v.salary) => fn_out.rec.salary = NOT_SPECIFIED
       /\ Missing(fn_in.arg.v.alternate_url) => fn_out.rec.url = NO_LINK

\* the branch table of the salary text, by presence of the two bounds
SalaryTable(salary) ==
    IF Missing(salary) THEN NOT_SPECIFIED
    ELSE LET f == salary.v.from
             t == salary.v.to
             c == IF salary.v.currency = Absent THEN "" ELSE salary.v.currency.v
         IN  IF ~Missing(f) /\ ~Missing(t)
               THEN ToString(f.v) \o " - " \o ToString(t.v) \o " " \o c
             ELSE IF ~Missing(f) THEN "ot " \o ToString(f.v) \o " " \o c
             ELSE IF ~Missing(t) THEN "do " \o ToString(t.v) \o " " \o c
             ELSE NOT_SPECIFIED

\* C7: format_salary returns the text of the branch table for every input,
\* a bound of 0 included.
C7_SalaryBranchTable ==
    (fn_in.fn = "format_salary" /\ fn_out # None)
    => fn_out = Str(SalaryTable(fn_in.arg))

\* C8: no exception ever leaves fetch_vacancies.
C8_LoopNeverRaises ==
    ~(pc = "raised" /\ exc.from = "fetch_vacancies")

\* C9 as claimed: every run whose loop completed has handed the sequence to
\* save_to_excel exactly once, the empty sequence included.
C9_SinkCalledOnceAlways ==
    (pc = "done" /\ exc.from # "fetch_vacancies") => saveCalls = 1

\* C9 as amended: save_to_excel is never called while pages are fetched and
\* at most once; it is called with the final sequence, after the loop
\* condition failed; a completed loop with a non-empty sequence leads to
\* exactly one call, and one with the empty sequence to none.
C9_SinkCalledOnceIfNonEmpty ==
    /\ saveCalls <= 1
    /\ pc \in FetchPcs \cup {"main", "returned"} => saveCalls = 0
    /\ saveCalls = 1 => /\ handed = vacancies
                        /\ vacancies # <<>>
                        /\ total_pages.tag = "int"
                        /\ ~(page < total_pages.v)
    /\ (pc \in {"finish", "done"} /\ exc.from # "fetch_vacancies")
         => saveCalls = (IF vacancies # <<>> THEN 1 ELSE 0)

\* C9 witness: a run ended after one call of save_to_excel that wrote the
\* records collected around a skipped page.
C9_Witness ==
    /\ pc = "done"
    /\ saveCalls = 1
    /\ writes = 1
    /\ skipped # {}
    /\ handed = vacancies

\* C10: no exception leaves main: a run never ends crashed, every state but
\* the normal end of main has a next step, and a run in which an exception
\* was raised ends with the error logged by the catch-all.
C10_MainNeverCrashes ==
    /\ pc # "crashed"
    /\ pc # "done" => ENABLED Next
    /\ (pc = "done" /\ exc # NoExc) => critical

\* C10 witness: an exception raised in save_to_excel was caught and logged
\* and main ended normally.
C10_Witness ==
    /\ pc = "done"
    /\ critical
    /\ exc = [type |-> "OSError", from |-> "save_to_excel"]

\* the wait a 429 response asks for: the seconds of its Retry-After header,
\* or the default delay when the header is missing or no number
HeaderDelay(h) ==
    IF h # Absent /\ ParseInt(h).ok THEN ParseInt(h).v ELSE REQUEST_DELAY

\* C11: a step that received a 429 whose header is missing, unparseable or
\* a number of seconds slept the Retry-After seconds, or REQUEST_DELAY when
\* the header is missing or unparseable, raised nothing, and the same page
\* is requested next.
C11_RateLimitSleepsHeaderOrDefault ==
    (resp.status = 429 /\ HeaderDelay(resp.retry_after) >= 0) =>
        /\ exc = NoExc
        /\ slept = HeaderDelay(resp.retry_after)
        /\ pc = "request"
        /\ resp.page = page

\* C12: every iteration of the page loop ends with the politeness sleep:
\* whenever the loop test is reached after an iteration, whether the page
\* was read or skipped, the step that ended the iteration slept
\* REQUEST_DELAY.
C12_PolitenessSleepEveryIteration ==
    (pc = "while" /\ page > 0) => slept = REQUEST_DELAY

\* the last step made a request that ended in a network or HTTP error
ErrorAnswered ==
    resp.status \in {r.status : r \in NetworkErrors \cup HttpErrors}

\* C13 as stated: after attempt n of a page ends in a network or HTTP error
\* the fetcher has slept REQUEST_DELAY * n, for every n up to MAX_RETRIES.
C13_BackoffAfterEveryAttempt ==
    ErrorAnswered => slept = REQUEST_DELAY * nreq

\* C13: after attempt n of a page ends in a network or HTTP error and
\* n < MAX_RETRIES, the fetcher has slept exactly REQUEST_DELAY * n and the
\* next step is the retry, attempt n + 1 of the same page; after an error
\* on attempt MAX_RETRIES there is no sleep and the page has failed.
C13_BackoffBeforeEveryRetry ==
    ErrorAnswered =>
        /\ nreq \in 1..MAX_RETRIES
        /\ resp.page = page
        /\ exc = NoExc
        /\ nreq < MAX_RETRIES =>
             /\ slept = REQUEST_DELAY * nreq
             /\ pc = "request"
             /\ attempt = nreq + 1
        /\ nreq = MAX_RETRIES =>
             /\ slept = NoSleep
             /\ PageFailed

C13_Witness == ErrorAnswered /\ nreq = 2 /\ slept = REQUEST_DELAY * 2

\* the extraction of the item raises inside the try of the item loop
ItemRaises(it) == ExtractOf[it].kind = "raise"
\* the extraction of the item ends in an append
ItemYieldsRecord(it) == ExtractOf[it].kind = "record"
\* the last n elements of a sequence
LastN(s, n) == SubSeq(s, Len(s) - n + 1, Len(s))

\* what the item loop has done on the current page: nothing is in flight,
\* and the items behind the loop index, raising ones included, have
\* appended exactly the records of those that match, in item order
ItemsDoneSoFar ==
    LET done == SubSeq(items, 1, idx - 1)
        kept == SelectSeq(done, ItemYieldsRecord)
        n    == Len(kept)
    IN  /\ exc = NoExc
        /\ idx \in 1..(Len(items) + 1)
        /\ Len(sources) >= n
        /\ Len(vacancies) = Len(sources)
        /\ LastN(sources, n) = kept
        /\ LastN(vacancies, n) = [i \in 1..n |-> ExtractOf[kept[i]].rec]
        /\ \A i \in 1..Len(done) :
             ItemRaises(done[i]) =>
                 Len(SelectSeq(SubSeq(done, 1, i), ItemYieldsRecord))
                   = Len(SelectSeq(SubSeq(done, 1, i - 1), ItemYieldsRecord))

\* a step of the item loop takes the next item, raising or not, and the
\* step after the last item advances the page index by one
ItemLoopStep ==
    pc = "items" =>
        /\ idx <= Len(items) => pc' = "items" /\ idx' = idx + 1 /\ page' = page
        /\ idx > Len(items) => pc' = "while" /\ page' = page + 1

\* C14: an extraction error on an item of a fetched page appends nothing
\* and raises nothing out of the loop, every later item of the page is
\* still processed and appended if it matches, and after the last item the
\* page index advances by one.
C14_ItemErrorNeverAbortsPage ==
    [](pc = "items" => ItemsDoneSoFar) /\ [][ItemLoopStep]_vars

\* C14 witness: the first item of a page raised, the second one was
\* appended after it, and the end of the page is reached.
C14_Witness ==
    /\ pc = "items"
    /\ idx = 3
    /\ Len(items) = 2
    /\ ItemRaises(items[1])
    /\ ItemYieldsRecord(items[2])
    /\ sources # <<>>
    /\ sources[Len(sources)] = items[2]

\* the last step issued a GET
Requested == resp.status # NoResp.status
\* the step ends an iteration of the page loop: the page failed, or its
\* last item has been processed
IterationEnds == PageFailed \/ (pc = "items" /\ idx > Len(items))

\* the page index starts at 0, every request is for the current page index,
\* and the indices below it, the skipped ones among them, are behind
PagesBehind ==
    /\ page >= 0
    /\ pc = "main" => page = 0
    /\ \A p \in skipped : p < page
    /\ Requested => resp.page = page

\* the page index never decreases and advances by exactly one exactly when
\* an iteration ends
PageStep ==
    /\ page' \in {page, page + 1}
    /\ (page' = page + 1) <=> IterationEnds

\* C15: pages are requested in non-decreasing order from 0, the page index
\* advances by exactly 1 per iteration, and no request is issued for an
\* index below the current one, so a skipped or processed page is never
\* requested again.
C15_PagesRequestedInOrder == []PagesBehind /\ [][PageStep]_vars

\* C15 witness: page 1 is requested after page 0 has been processed.
C15_Witness ==
    /\ Requested
    /\ resp.page = 1
    /\ sources # <<>>
    /\ skipped = {}

\* the `pages` value a decoded body reports, 0 when the field is absent
ReportedPages(body) ==
    IF body.v.pages = Absent THEN Num(0) ELSE body.v.pages

\* page index < bound, for a bound that is a number
BelowBound == total_pages.tag = "int" /\ page < total_pages.v

\* while a decoded body is held, the bound is the one that body reports
BoundIsLastReported ==
    (pc = "items" \/ data # NoData) => total_pages = ReportedPages(data)

\* the loop test starts an iteration exactly when page index < bound and
\* returns exactly when the bound is a number the page index has reached
LoopTestStep ==
    pc = "while" =>
        /\ (pc' = "request") <=> BelowBound
        /\ (pc' = "returned") <=> (total_pages.tag = "int" /\ ~BelowBound)
        /\ UNCHANGED <<page, total_pages>>

\* C16: after every successful fetch the bound is the `pages` value of that
\* response, 0 when the field is absent, whatever the bound was before; the
\* loop starts another iteration exactly while the page index is below the
\* bound read last.
C16_BoundRereadEveryPage == []BoundIsLastReported /\ [][LoopTestStep]_vars

\* C16 witness: page 0 reported two pages and the response of page 1 has
\* lowered the bound to one.
C16_Witness ==
    /\ pc = "items"
    /\ page = 1
    /\ total_pages = Num(1)
    /\ data.v.pages = Num(1)

\* the times at which wait_for_file polls the lock
PollTimes == {k * WAIT_TIME : k \in 0..(MAX_WAIT_TIME \div WAIT_TIME)}

\* the wait is a whole number of poll intervals and never longer than
\* MAX_WAIT_TIME, and the file is written at most once
SinkWaitBounded ==
    /\ pc = "wait" => elapsed \in PollTimes /\ elapsed <= MAX_WAIT_TIME
    /\ pc = "write" => writes = 0 /\ exc = NoExc
    /\ writes <= 1

\* the steps of save_to_excel: without the file the write follows at once;
\* a poll inside the bound that finds the lock sleeps one interval, one
\* that finds the file free goes on to the write; past the bound the save
\* ends with no write and no exception; the write happens once
SinkStep ==
    /\ (pc = "returned" /\ pc' = "write") =>
           slept' = NoSleep /\ elapsed' = 0 /\ writes' = writes
    /\ pc = "wait" =>
        /\ pc' \in {"wait", "write", "finish"}
        /\ writes' = writes
        /\ exc' = NoExc
        /\ pc' = "wait" =>
               /\ elapsed < MAX_WAIT_TIME
               /\ elapsed' = elapsed + WAIT_TIME
               /\ slept' = WAIT_TIME
        /\ pc' = "write" => elapsed < MAX_WAIT_TIME /\ slept' = NoSleep
        /\ pc' = "finish" <=> ~(elapsed < MAX_WAIT_TIME)
    /\ pc = "write" =>
           pc' = "finish" /\ writes' = writes + 1 /\ exc' = NoExc
    /\ writes' # writes => pc = "write"

\* C17: when the file exists its lock is polled every WAIT_TIME for at most
\* MAX_WAIT_TIME; found free at a poll inside the bound the records are
\* written exactly once; locked at every poll until the bound is passed the
\* save ends with no write and no exception; when the file does not exist
\* the write follows without any wait.
C17_SinkLockWait == []SinkWaitBounded /\ [][SinkStep]_vars

\* C17 witness: the file stayed locked past the bound and the save was
\* given up: save_to_excel was called, nothing was written, nothing raised.
C17_Witness ==
    /\ pc = "finish"
    /\ saveCalls = 1
    /\ writes = 0
    /\ exc = NoExc

\* C18: at most MAX_RETRIES requests are issued for a page index whatever
\* the responses are, and a page that has answered 429 on MAX_RETRIES
\* requests has failed after exactly MAX_RETRIES requests and is skipped.
C18_AtMostMaxRetriesPerPage ==
    /\ nreq <= MAX_RETRIES
    /\ Requested => resp.page = page
    /\ n429 = MAX_RETRIES => PageFailed /\ nreq = MAX_RETRIES /\ exc = NoExc

\* C19: once page 0 has failed on all its attempts no request is issued any
\* more: the bound is still its initial 1, the page index is 1, only page 0
\* was skipped, the loop is over and the sequence it returns is empty.
C19_FirstPageFailureEndsRun ==
    0 \in skipped =>
        /\ total_pages = Num(1)
        /\ page = 1
        /\ skipped = {0}
        /\ vacancies = <<>>
        /\ exc = NoExc
        /\ ~Requested
        /\ pc \in {"while", "returned", "finish", "done"}

\* C19 witness: the run is over after page 0 failed, and nothing was saved.
C19_Witness ==
    /\ pc = "done"
    /\ 0 \in skipped
    /\ saveCalls = 0
    /\ ~critical

\* the steps of an iteration whose fetch fails: entering the iteration and
\* every attempt that does not succeed leave the page index, the bound and
\* the records alone, and the step that gives the page up adds one to the
\* page index and leaves the bound and the records alone
FailedPageStep ==
    /\ (pc' = "request" \/ (pc' = "after_for" /\ ~success')) =>
           UNCHANGED <<page, total_pages, vacancies>>
    /\ PageFailed =>
           /\ pc' = "while"
           /\ page' = page + 1
           /\ UNCHANGED <<total_pages, vacancies>>

\* C20: an iteration whose fetch failed on all attempts changes, of the
\* page index, the bound and the accumulated records, only the page index,
\* by plus one.
C20_FailedPageFrame == [][FailedPageStep]_vars

\* C20 witness: page 1 has just been given up while records of page 0 are
\* held and the bound is 2.
C20_Witness ==
    /\ pc = "while"
    /\ page = 2
    /\ skipped = {1}
    /\ total_pages = Num(2)
    /\ vacancies # <<>>

====
